---- MODULE Spec2Model ----
(***************************************************************************)
(* Model of the cross-border air-quality pipeline:                         *)
(*   backup/agents/orchestrator.py  (DataValidator, EmissionTracker,       *)
(*       TransboundaryModel, PolicyDecisionEngine, RegionalOrchestrator)   *)
(*   communication/protocols.py     (PolicyCoordinationProtocol,           *)
(*       AlertDistributionProtocol)                                        *)
(*   backup/agents/dhaka_agent.py, kolkata_agent.py  (the agents' run)     *)
(*                                                                         *)
(* Units.  Python floats are modelled by scaled integers:                  *)
(*   wind_speed_ms            tenths of m/s     (35 is 3.5 m/s)            *)
(*   coefficients, fractions  hundredths        (62 is 0.62)               *)
(*   transport efficiency     thousandths       (720 is 0.72)              *)
(*   pm25                     whole ug/m3                                  *)
(* A Python dict is a TLA+ record/function with string keys; dict.get is   *)
(* Get.  A value of a non-numeric type (a string where a number is         *)
(* expected) is the integer NonNumeric; None is NoneVal.                   *)
(***************************************************************************)
EXTENDS Integers, Sequences, FiniteSets, TLC

NonNumeric == -9999
NoneVal == -1

IsNum(v) == v # NonNumeric

Get(d, k, default) == IF k \in DOMAIN d THEN d[k] ELSE default

\* `x = v` followed by uses of x: v is evaluated once and F applied to its value
Bind(v, F(_)) == CHOOSE out \in {F(x) : x \in {v}} : TRUE

Min(a, b) == IF a < b THEN a ELSE b
Max(a, b) == IF a > b THEN a ELSE b

\* round(num/den, 2) resp. round(num/den, 1) of Python 3, as a count of
\* units of 1/scale: round-half-to-even of scale*num/den (num >= 0, den > 0).
RoundDiv(num, den, scale) ==
    LET q == (scale * num) \div den
        r == (scale * num) % den
    IN  IF 2 * r > den THEN q + 1
        ELSE IF 2 * r < den THEN q
        ELSE IF q % 2 = 0 THEN q ELSE q + 1

(***************************************************************************)
(* TransboundaryModel                                                      *)
(***************************************************************************)
\* model_coefficients (hundredths); an unknown country gets the BD entry.
model_coefficients(country) ==
    IF country = "IN" THEN [alpha |-> 55, beta |-> 45]
    ELSE [alpha |-> 38, beta |-> 62]

\* base efficiency in tenths
base_efficiency(wind_speed) ==
    IF wind_speed < 10 THEN 1
    ELSE IF wind_speed < 30 THEN 3
    ELSE IF wind_speed < 60 THEN 6
    ELSE 8

\* direction factor in tenths; every country other than BD takes the
\* "India" branch of the code.
direction_factor(wind_direction, country) ==
    IF country = "BD"
    THEN IF 225 <= wind_direction /\ wind_direction <= 315 THEN 10
         ELSE IF 45 <= wind_direction /\ wind_direction <= 135 THEN 2
         ELSE 5
    ELSE IF 45 <= wind_direction /\ wind_direction <= 135 THEN 10
         ELSE IF 225 <= wind_direction /\ wind_direction <= 315 THEN 2
         ELSE 5

\* boundary-layer factor in tenths
bl_factor(boundary_layer_height) ==
    IF boundary_layer_height < 500 THEN 12
    ELSE IF boundary_layer_height < 1000 THEN 10
    ELSE 8

\* efficiency in thousandths, clamped to [0.1, 0.9]
calculate_transport_efficiency(wind_speed, wind_direction, boundary_layer_height, country) ==
    LET efficiency == base_efficiency(wind_speed)
                        * direction_factor(wind_direction, country)
                        * bl_factor(boundary_layer_height)
    IN  Max(100, Min(efficiency, 900))

\* distance to the border in km; unknown country: 50
border_distance(country) == IF country = "IN" THEN 80 ELSE 50

calculate_transport_time_calm_at_half(wind_speed, country) ==
    IF wind_speed <= 5 THEN NoneVal
    ELSE RoundDiv(border_distance(country) * 100, wind_speed * 36, 10)

\* transport time in tenths of an hour after round(.., 1); NoneVal for inf
calculate_transport_time(wind_speed, country) ==
    IF wind_speed < 5 THEN NoneVal
    ELSE RoundDiv(border_distance(country) * 100, wind_speed * 36, 10)

\* the adjusted coefficients of TransboundaryModel.execute, in hundredths:
\* alpha*(1-e) and beta*e, normalised by their sum, each round(.., 2)
adjusted_coefficients_unnormalised(coef, transport_efficiency) ==
    [local |-> RoundDiv(coef.alpha * (1000 - transport_efficiency), 100000, 100),
     transboundary |-> RoundDiv(coef.beta * transport_efficiency, 100000, 100)]

adjusted_coefficients(coef, transport_efficiency) ==
    LET adjusted_alpha == coef.alpha * (1000 - transport_efficiency)
        adjusted_beta == coef.beta * transport_efficiency
        total == adjusted_alpha + adjusted_beta
    IN  IF total > 0
        THEN [local |-> RoundDiv(adjusted_alpha, total, 100),
              transboundary |-> RoundDiv(adjusted_beta, total, 100)]
        ELSE [local |-> RoundDiv(adjusted_alpha, 100000, 100),
              transboundary |-> RoundDiv(adjusted_beta, 100000, 100)]

\* TransboundaryModel.execute: the returned record (timestamp, equation and
\* the echoed meteorological factors carry no logic and are left out).
\* exc is TRUE when the code raises (a comparison with a non-numeric value).
TransboundaryModel_execute(data) ==
    LET wind_speed == Get(data, "wind_speed_ms", 0)
        wind_direction == Get(data, "wind_direction_deg", 0)
        boundary_layer_height == Get(data, "boundary_layer_height_m", 1000)
        country == Get(data, "country_code", "BD")
        coef == model_coefficients(country)
    IN  IF ~IsNum(wind_speed) \/ ~IsNum(wind_direction) \/ ~IsNum(boundary_layer_height)
        THEN [exc |-> TRUE]
        ELSE
        LET transport_efficiency ==
                calculate_transport_efficiency(wind_speed, wind_direction,
                                               boundary_layer_height, country)
        IN  [exc |-> FALSE,
             country |-> country,
             base_coefficients |-> [local |-> coef.alpha, transboundary |-> coef.beta],
             adjusted_coefficients |-> adjusted_coefficients(coef, transport_efficiency),
             transport_efficiency |-> RoundDiv(transport_efficiency, 1000, 100),
             transport_time_hours |-> calculate_transport_time(wind_speed, country)]

(***************************************************************************)
(* DataValidator (orchestrator.py)                                         *)
(***************************************************************************)
pm25_max == 900
pm25_min == 0
wind_speed_max == 300

\* timestamp values: "ok" parses and is recent, "old" parses and is more
\* than 24 hours old, "bad" does not parse.
DataValidator_execute(data) ==
    LET hasPm == "pm25" \in DOMAIN data
        hasWs == "wind_speed_ms" \in DOMAIN data
        hasTs == "timestamp" \in DOMAIN data
    IN  IF (hasPm /\ ~IsNum(data["pm25"])) \/ (hasWs /\ ~IsNum(data["wind_speed_ms"]))
        THEN [exc |-> TRUE]
        ELSE
        LET pmHigh == hasPm /\ data["pm25"] > pm25_max
            pmLow == hasPm /\ data["pm25"] < pm25_min
            wsHigh == hasWs /\ data["wind_speed_ms"] > wind_speed_max
            tsBad == hasTs /\ data["timestamp"] = "bad"
            tsOld == hasTs /\ data["timestamp"] = "old"
            m1 == IF pmHigh THEN [data EXCEPT !["pm25"] = pm25_max] ELSE data
            m2 == IF wsHigh THEN [m1 EXCEPT !["wind_speed_ms"] = wind_speed_max] ELSE m1
        IN  [exc |-> FALSE,
             is_valid |-> ~pmLow /\ ~tsBad,
             warnings |-> (IF pmHigh THEN {"pm25_max"} ELSE {})
                          \cup (IF wsHigh THEN {"wind_speed_max"} ELSE {})
                          \cup (IF tsOld THEN {"timestamp_old"} ELSE {}),
             errors |-> (IF pmLow THEN {"pm25_min"} ELSE {})
                        \cup (IF tsBad THEN {"timestamp_format"} ELSE {}),
             modified_data |-> m2]

(***************************************************************************)
(* EmissionTracker                                                         *)
(***************************************************************************)
\* transboundary_factor in thousandths
transboundary_factor(country, wind_direction, wind_speed) ==
    IF country = "BD"
    THEN IF 225 <= wind_direction /\ wind_direction <= 315
         THEN Min(100, wind_speed) * 6
         ELSE 200
    ELSE IF 45 <= wind_direction /\ wind_direction <= 135
         THEN Min(100, wind_speed) * 4
         ELSE 100

\* round(pm25 * factor, 1) in tenths of ug/m3; pm25 counts 1/per_unit ug/m3
\* and factor is in thousandths
contribution(pm25, per_unit, factor) ==
    IF pm25 >= 0 THEN RoundDiv(pm25 * factor, 1000 * per_unit, 10)
    ELSE 0 - RoundDiv((0 - pm25) * factor, 1000 * per_unit, 10)

\* EmissionTracker.execute on a record whose pm25 counts 1/per_unit ug/m3:
\* contributions in tenths of ug/m3 (round(.., 1)), percentages in tenths of
\* a percent; the per-source table is left to emission_sources.
EmissionTracker_execute_scaled(data, per_unit) ==
    LET country == Get(data, "country_code", "BD")
        pm25 == Get(data, "pm25", 0)
        wind_direction == Get(data, "wind_direction_deg", 0)
        wind_speed == Get(data, "wind_speed_ms", 0)
        inbound == IF country = "BD"
                   THEN 225 <= wind_direction /\ wind_direction <= 315
                   ELSE 45 <= wind_direction /\ wind_direction <= 135
    IN  IF ~IsNum(pm25) \/ ~IsNum(wind_direction) \/ (inbound /\ ~IsNum(wind_speed))
        THEN [exc |-> TRUE]
        ELSE
        LET f == transboundary_factor(country, wind_direction, wind_speed)
        IN  [exc |-> FALSE,
             country |-> country,
             pm25_total |-> pm25,
             local_contribution |-> contribution(pm25, per_unit, 1000 - f),
             local_percentage |-> 1000 - f,
             transboundary_contribution |-> contribution(pm25, per_unit, f),
             transboundary_percentage |-> f]

\* the records of the orchestrator model give pm25 in whole ug/m3
EmissionTracker_execute(data) == EmissionTracker_execute_scaled(data, 1)

(***************************************************************************)
(* PolicyDecisionEngine                                                    *)
(***************************************************************************)
decision_thresholds(country) ==
    IF country = "IN"
    THEN [emergency |-> 180, severe |-> 120, poor |-> 90, moderate |-> 50]
    ELSE [emergency |-> 200, severe |-> 150, poor |-> 100, moderate |-> 50]

\* policy_actions.get(country, {}).get(category, [])
policy_actions(country, category) ==
    IF country = "BD" THEN
        CASE category = "emergency" -> <<"brick_kiln_shutdown", "odd_even_vehicles", "school_closure">>
          [] category = "severe" -> <<"brick_kiln_shutdown", "construction_halt">>
          [] category = "poor" -> <<"construction_halt", "street_watering">>
          [] category = "moderate" -> <<"street_watering", "public_advisory">>
          [] OTHER -> <<>>
    ELSE IF country = "IN" THEN
        CASE category = "emergency" -> <<"odd_even_vehicles", "school_closure", "industrial_audit">>
          [] category = "severe" -> <<"school_closure", "industrial_audit">>
          [] category = "poor" -> <<"industrial_audit", "street_watering">>
          [] category = "moderate" -> <<"street_watering", "public_advisory">>
          [] OTHER -> <<>>
    ELSE <<>>

\* (the thresholds tested from the lowest up, first match wins)
air_quality_category_lowest_first(pm25, country) ==
    LET thresholds == decision_thresholds(country)
    IN  IF pm25 < thresholds.moderate THEN "good"
        ELSE IF pm25 >= thresholds.moderate THEN "moderate"
        ELSE IF pm25 >= thresholds.poor THEN "poor"
        ELSE IF pm25 >= thresholds.severe THEN "severe"
        ELSE "emergency"

air_quality_category(pm25, country) ==
    LET thresholds == decision_thresholds(country)
    IN  IF pm25 >= thresholds.emergency THEN "emergency"
        ELSE IF pm25 >= thresholds.severe THEN "severe"
        ELSE IF pm25 >= thresholds.poor THEN "poor"
        ELSE IF pm25 >= thresholds.moderate THEN "moderate"
        ELSE "good"

\* (a coordination test that takes the transboundary share alone)
coordination_needed_whatever_category(transboundary_percent, category) ==
    transboundary_percent > 30

\* `transboundary_percent > 30 and category in ["emergency", "severe"]`
coordination_needed(transboundary_percent, category) ==
    transboundary_percent > 30 /\ category \in {"emergency", "severe"}

\* transboundary_percentage is in whole percent (the orchestrator passes
\* adjusted transboundary coefficient * 100).
PolicyDecisionEngine_execute(data) ==
    LET pm25 == Get(data, "pm25", 0)
        country == Get(data, "country_code", "BD")
        transboundary_percent == Get(data, "transboundary_percentage", 0)
    IN  IF ~IsNum(pm25) THEN [exc |-> TRUE]
        ELSE
        LET category == air_quality_category(pm25, country)
            severe == category \in {"emergency", "severe"}
        IN  [exc |-> FALSE,
             country |-> country,
             pm25_level |-> pm25,
             air_quality_category |-> category,
             recommended_actions |-> policy_actions(country, category),
             transboundary_contribution_percent |-> transboundary_percent,
             cross_border_coordination_needed |->
                 coordination_needed(transboundary_percent, category),
             implementation_priority |-> IF severe THEN "high" ELSE "normal",
             expected_impact |-> IF severe THEN "significant" ELSE "moderate"]

\* the decision with the timestamp execute stamps on it (datetime.now())
PolicyDecisionEngine_execute_at(data, now) ==
    Bind(PolicyDecisionEngine_execute(data), LAMBDA decision :
        IF decision.exc THEN decision ELSE ("timestamp" :> now) @@ decision)

(***************************************************************************)
(* PolicyCoordinationProtocol (protocols.py)                               *)
(* active_policies of one protocol instance is a function from proposal    *)
(* ids to proposals.  A proposal's "responses" key, absent until the first *)
(* response, is the empty function.                                        *)
(***************************************************************************)
Countries == {"BD", "IN"}
Responses == {"accept", "reject", "modify"}

new_proposal(country_code, proposal_id, action_type, details) ==
    [proposal_id |-> proposal_id,
     proposing_country |-> country_code,
     action_type |-> action_type,
     details |-> details,
     status |-> "proposed",
     responses |-> <<>>]

\* propose_joint_action on the instance of country_code: the instance's new
\* active_policies.  The id is built from the clock reading.
propose_joint_action(policies, country_code, proposal_id, action_type, details) ==
    (proposal_id :> new_proposal(country_code, proposal_id, action_type, details))
        @@ policies

\* _finalize_proposal: accepts >= len(responses) / 2
finalize_proposal(proposal) ==
    LET responses == proposal.responses
        accepts == Cardinality({c \in DOMAIN responses : responses[c] = "accept"})
    IN  IF 2 * accepts >= Cardinality(DOMAIN responses)
        THEN [proposal EXCEPT !.status = "approved"]
        ELSE [proposal EXCEPT !.status = "rejected"]

\* respond_to_proposal on the instance of country_code: [ok, policies]
respond_to_proposal(policies, country_code, proposal_id, response) ==
    IF proposal_id \notin DOMAIN policies
    THEN [ok |-> FALSE, policies |-> policies]
    ELSE LET proposal == policies[proposal_id]
             recorded == [proposal EXCEPT
                            !.responses = (country_code :> response) @@ proposal.responses]
             final == IF Cardinality(DOMAIN recorded.responses) >= 2
                      THEN finalize_proposal(recorded)
                      ELSE recorded
         IN  [ok |-> TRUE,
              policies |-> [policies EXCEPT ![proposal_id] = final]]

(***************************************************************************)
(* AlertDistributionProtocol (protocols.py)                                *)
(***************************************************************************)
alert_channels == {"government", "public_sms", "digital_billboards", "mobile_app",
                   "social_media"}

\* distribute_alert: the per-channel results (a channel that is not
\* configured reports False)
distribute_alert(alert_data, channels) ==
    [ch \in channels |-> ch \in alert_channels]

\* the sends that one distribute_alert call of the instance of country_code
\* makes: one per configured channel
sends(country_code, alert_data, channels) ==
    {[protocol |-> country_code, alert_type |-> alert_data.alert_type, channel |-> ch] :
        ch \in channels \cap alert_channels}

(***************************************************************************)
(* RegionalOrchestrator                                                    *)
(* A city input is [kind |-> "missing"] (key absent from the context),     *)
(* [kind |-> "empty"] ({} or None), [kind |-> "nondict"] (a truthy value   *)
(* that is not a dict) or [kind |-> "dict", data |-> the record].          *)
(***************************************************************************)
city_error(step, country_code) ==
    [status |-> "error", error |-> step, country_code |-> country_code]

\* (a check of the validation result that lets every record through)
is_rejected_never(validation_result) == FALSE

\* `if not validation_result["is_valid"]`
is_rejected(validation_result) == ~validation_result.is_valid

process_city_data(city_data, country_code) ==
    IF city_data.kind \in {"missing", "empty"}
    THEN [status |-> "no_data", country_code |-> country_code]
    ELSE IF city_data.kind = "nondict"
    THEN city_error("country_code", country_code)
    ELSE
    LET data == IF "country_code" \in DOMAIN city_data.data
                THEN city_data.data
                ELSE ("country_code" :> country_code) @@ city_data.data
    IN  Bind(DataValidator_execute(data), LAMBDA validation_result :
        IF validation_result.exc THEN city_error("validate", country_code)
        ELSE IF is_rejected(validation_result)
        THEN [status |-> "validation_failed",
              errors |-> validation_result.errors,
              country_code |-> country_code]
        ELSE
        LET validated_data == validation_result.modified_data
        IN  Bind(EmissionTracker_execute(validated_data), LAMBDA emission_result :
            IF emission_result.exc THEN city_error("emission", country_code)
            ELSE
            Bind(TransboundaryModel_execute(validated_data), LAMBDA model_result :
                IF model_result.exc THEN city_error("model", country_code)
                ELSE
                LET policy_input ==
                        ("transboundary_percentage" :>
                            model_result.adjusted_coefficients.transboundary)
                        @@ validated_data
                IN  Bind(PolicyDecisionEngine_execute(policy_input), LAMBDA policy_result :
                    IF policy_result.exc THEN city_error("policy", country_code)
                    ELSE [status |-> "success",
                          country_code |-> country_code,
                          pm25 |-> Get(validated_data, "pm25", 0),
                          emission_analysis |-> emission_result,
                          transboundary_model |-> model_result,
                          policy_recommendations |-> policy_result]))))

\* the sub-agents whose execute _process_city_data awaits, in the order of
\* the awaits; the sequence ends with the sub-agent that raised or rejected
SubAgentOrder == <<"data_validator", "emission_tracker", "transboundary_model", "policy_engine">>

sub_agents_invoked(city_data, country_code) ==
    IF city_data.kind # "dict" THEN <<>>
    ELSE
    LET data == IF "country_code" \in DOMAIN city_data.data
                THEN city_data.data
                ELSE ("country_code" :> country_code) @@ city_data.data
    IN  Bind(DataValidator_execute(data), LAMBDA validation_result :
        IF validation_result.exc \/ is_rejected(validation_result)
        THEN SubSeq(SubAgentOrder, 1, 1)
        ELSE IF EmissionTracker_execute(validation_result.modified_data).exc
        THEN SubSeq(SubAgentOrder, 1, 2)
        ELSE IF TransboundaryModel_execute(validation_result.modified_data).exc
        THEN SubSeq(SubAgentOrder, 1, 3)
        ELSE SubAgentOrder)

\* results.get("policy_recommendations", {}).get(key, default)
policy_get(results, key, default) ==
    Get(Get(results, "policy_recommendations", <<>>), key, default)

\* results.get("transboundary_model", {}).get("adjusted_coefficients", {})
\*        .get("transboundary", 0), in hundredths
transboundary_of(results) ==
    Get(Get(Get(results, "transboundary_model", <<>>), "adjusted_coefficients", <<>>),
        "transboundary", 0)

\* (a check that looks at the severity only and forgets the policy's flag)
needs_coordination_severity_only(results) ==
    /\ results.status = "success"
    /\ policy_get(results, "air_quality_category", "") \in {"emergency", "severe"}

needs_coordination(results) ==
    /\ results.status = "success"
    /\ policy_get(results, "cross_border_coordination_needed", FALSE)

\* _coordinate_cross_border_actions: [out, policies, clock] where policies
\* maps each country to its protocol instance's active_policies and clock is
\* the clock reading that names the next proposal.
coordinate_cross_border_actions(dhaka_results, kolkata_results, policies, clock) ==
    LET dhaka_needs_coordination == needs_coordination(dhaka_results)
        kolkata_needs_coordination == needs_coordination(kolkata_results)
    IN  IF ~(dhaka_needs_coordination \/ kolkata_needs_coordination)
        THEN [out |-> [status |-> "not_needed", coordinated_actions |-> <<>>],
              policies |-> policies, clock |-> clock]
        ELSE IF dhaka_needs_coordination /\ kolkata_needs_coordination
        THEN LET details == [dhaka_pm25 |-> Get(dhaka_results, "pm25", 0),
                             kolkata_pm25 |-> Get(kolkata_results, "pm25", 0),
                             dhaka_actions |-> policy_get(dhaka_results, "recommended_actions", <<>>),
                             kolkata_actions |-> policy_get(kolkata_results, "recommended_actions", <<>>),
                             duration_hours |-> 48]
                 proposed == [policies EXCEPT !["BD"] =
                                propose_joint_action(policies["BD"], "BD", clock,
                                                     "bilateral_emergency_response", details)]
                 responded == [proposed EXCEPT !["IN"] =
                                respond_to_proposal(proposed["IN"], "IN", clock, "accept").policies]
             IN  [out |-> [status |-> "success",
                           coordinated_actions |->
                               <<[proposal_id |-> clock,
                                  action_type |-> "bilateral_emergency_response",
                                  status |-> "approved",
                                  participating_countries |-> <<"BD", "IN">>]>>],
                  policies |-> responded, clock |-> clock + 1]
        ELSE IF dhaka_needs_coordination
        THEN LET details == [source_country |-> "BD",
                             pm25_level |-> Get(dhaka_results, "pm25", 0),
                             transboundary_contribution |-> transboundary_of(dhaka_results),
                             requested_actions |-> <<"industrial_emission_reduction">>,
                             duration_hours |-> 24]
             IN  [out |-> [status |-> "success",
                           coordinated_actions |->
                               <<[proposal_id |-> clock,
                                  action_type |-> "transboundary_notification",
                                  status |-> "proposed",
                                  participating_countries |-> <<"BD", "IN">>]>>],
                  policies |-> [policies EXCEPT !["BD"] =
                                  propose_joint_action(policies["BD"], "BD", clock,
                                                       "transboundary_notification", details)],
                  clock |-> clock + 1]
        ELSE LET details == [source_country |-> "IN",
                             pm25_level |-> Get(kolkata_results, "pm25", 0),
                             transboundary_contribution |-> transboundary_of(kolkata_results),
                             requested_actions |-> <<"brick_kiln_emission_reduction">>,
                             duration_hours |-> 24]
             IN  [out |-> [status |-> "success",
                           coordinated_actions |->
                               <<[proposal_id |-> clock,
                                  action_type |-> "transboundary_notification",
                                  status |-> "proposed",
                                  participating_countries |-> <<"IN", "BD">>]>>],
                  policies |-> [policies EXCEPT !["IN"] =
                                  propose_joint_action(policies["IN"], "IN", clock,
                                                       "transboundary_notification", details)],
                  clock |-> clock + 1]

severity_map(category) ==
    CASE category = "emergency" -> "emergency"
      [] category = "severe" -> "high"
      [] category = "poor" -> "moderate"
      [] category \in {"moderate", "good"} -> "low"
      [] OTHER -> "moderate"

create_alert_actions_reversed(country, pm25, category, transboundary_percent, recommended_actions) ==
    LET city == IF country = "BD" THEN "Dhaka" ELSE "Kolkata"
        reversed == [i \in 1..Len(recommended_actions) |->
                        recommended_actions[Len(recommended_actions) + 1 - i]]
    IN  [severity |-> severity_map(category),
         alert_type |-> "pollution_spike",
         origin_country |-> country,
         affected_countries |-> <<country>>,
         affected_cities |-> <<city>>,
         current_pm25 |-> pm25,
         forecast_pm25 |-> <<pm25 * 90, pm25 * 85, pm25 * 80>>,
         transboundary_contribution |-> transboundary_percent,
         recommended_actions |-> reversed,
         coordination_required |-> transboundary_percent > 30,
         message_bengali |-> [lang |-> "bn", city |-> city, category |-> category, pm25 |-> pm25],
         message_hindi |-> [lang |-> "hi", city |-> city, category |-> category, pm25 |-> pm25],
         message_english |-> [lang |-> "en", city |-> city, category |-> category, pm25 |-> pm25,
                              actions |-> recommended_actions]]

\* _create_alert.  A message is the record of what the f-string interpolates;
\* the English one lists the actions when there are any.  forecast_pm25 is in
\* hundredths, transboundary_percent in whole percent.
create_alert(country, pm25, category, transboundary_percent, recommended_actions) ==
    LET city == IF country = "BD" THEN "Dhaka" ELSE "Kolkata"
    IN  [severity |-> severity_map(category),
         alert_type |-> "pollution_spike",
         origin_country |-> country,
         affected_countries |-> <<country>>,
         affected_cities |-> <<city>>,
         current_pm25 |-> pm25,
         forecast_pm25 |-> <<pm25 * 90, pm25 * 85, pm25 * 80>>,
         transboundary_contribution |-> transboundary_percent,
         recommended_actions |-> recommended_actions,
         coordination_required |-> transboundary_percent > 30,
         message_bengali |-> [lang |-> "bn", city |-> city, category |-> category, pm25 |-> pm25],
         message_hindi |-> [lang |-> "hi", city |-> city, category |-> category, pm25 |-> pm25],
         message_english |-> [lang |-> "en", city |-> city, category |-> category, pm25 |-> pm25,
                              actions |-> recommended_actions]]

\* (a channel list that lost the billboards)
city_channels_without_billboards == {"government", "public_sms", "mobile_app"}

city_channels == {"government", "public_sms", "digital_billboards", "mobile_app"}

\* the city part of _generate_alerts for one city: the entries appended to
\* alerts (none or one) and the sends made through the country's protocol
city_alert(results, country) ==
    LET category == policy_get(results, "air_quality_category", "")
    IN  IF results.status = "success" /\ category \in {"emergency", "severe"}
        THEN LET alert == create_alert(country, Get(results, "pm25", 0), category,
                                       transboundary_of(results),
                                       policy_get(results, "recommended_actions", <<>>))
             IN  [entries |-> <<[alert |-> alert,
                                 distribution |-> distribute_alert(alert, city_channels)]>>,
                  sends |-> sends(country, alert, city_channels)]
        ELSE [entries |-> <<>>, sends |-> {}]

\* the transboundary part of _generate_alerts
transboundary_alert(dhaka_results, kolkata_results) ==
    LET dhaka_transboundary == transboundary_of(dhaka_results)
        kolkata_transboundary == transboundary_of(kolkata_results)
    IN  IF /\ dhaka_results.status = "success"
           /\ kolkata_results.status = "success"
           /\ (dhaka_transboundary > 50 \/ kolkata_transboundary > 40)
        THEN LET alert == [alert_type |-> "transboundary_transport",
                           severity |-> "high",
                           affected_countries |-> <<"BD", "IN">>,
                           details |-> [dhaka_pm25 |-> Get(dhaka_results, "pm25", 0),
                                        kolkata_pm25 |-> Get(kolkata_results, "pm25", 0),
                                        dhaka_transboundary_percent |-> dhaka_transboundary,
                                        kolkata_transboundary_percent |-> kolkata_transboundary]]
             IN  [entries |-> <<[alert |-> alert, type |-> "transboundary"]>>,
                  sends |-> sends("BD", alert, {"government"})
                            \cup sends("IN", alert, {"government"})]
        ELSE [entries |-> <<>>, sends |-> {}]

\* _generate_alerts: [out, sends]
generate_alerts(dhaka_results, kolkata_results) ==
    Bind(city_alert(dhaka_results, "BD"), LAMBDA d :
    Bind(city_alert(kolkata_results, "IN"), LAMBDA k :
    Bind(transboundary_alert(dhaka_results, kolkata_results), LAMBDA t :
        [out |-> [status |-> "success", alerts |-> d.entries \o k.entries \o t.entries],
         sends |-> d.sends \cup k.sends \cup t.sends])))

\* _update_orchestration_stats (last_run and the rolling average of the
\* measured processing time are wall-clock values and are not modelled)
update_orchestration_stats(stats, alerts_generated, policies_coordinated) ==
    [total_runs |-> stats.total_runs + 1,
     successful_runs |-> stats.successful_runs + 1,
     alerts_generated |-> stats.alerts_generated + alerts_generated,
     policies_coordinated |-> stats.policies_coordinated + policies_coordinated]

\* `not context or not isinstance(context, dict)`; a context is
\* [kind |-> "none"], [kind |-> "nondict"] or [kind |-> "dict", dhaka_data,
\* kolkata_data, other_keys], the last one empty when it has no key at all.
invalid_context(context) ==
    \/ context.kind # "dict"
    \/ /\ context.dhaka_data.kind = "missing"
       /\ context.kolkata_data.kind = "missing"
       /\ ~context.other_keys

\* RegionalOrchestrator.run: [result, raised, stats, policies, clock, sends]
run(context, stats, policies, clock) ==
    IF invalid_context(context)
    THEN [result |-> [status |-> "error",
                      error |-> "Invalid or missing context data",
                      timestamp |-> "now"],
          raised |-> FALSE,
          stats |-> stats, policies |-> policies, clock |-> clock, sends |-> {}]
    ELSE
    Bind(process_city_data(context.dhaka_data, "BD"), LAMBDA dhaka_results :
    Bind(process_city_data(context.kolkata_data, "IN"), LAMBDA kolkata_results :
    Bind(coordinate_cross_border_actions(dhaka_results, kolkata_results, policies, clock),
         LAMBDA coordination :
    Bind(generate_alerts(dhaka_results, kolkata_results), LAMBDA alert_results :
    Bind(update_orchestration_stats(stats,
             Len(alert_results.out.alerts),
             Len(coordination.out.coordinated_actions)), LAMBDA new_stats :
        [result |-> [status |-> "success",
                     timestamp |-> "now",
                     cities |-> [dhaka |-> dhaka_results, kolkata |-> kolkata_results],
                     cross_border_coordination |-> coordination.out,
                     alerts |-> alert_results.out,
                     orchestration_stats |-> new_stats],
         raised |-> FALSE,
         stats |-> new_stats,
         policies |-> coordination.policies,
         clock |-> coordination.clock,
         sends |-> alert_results.sends])))))

(***************************************************************************)
(* DhakaAgent (dhaka_agent.py)                                             *)
(***************************************************************************)
\* DhakaDataValidator.validate_measurement; quality_score in thousandths.
\* timestamp: "ok", "old" (older than the temporal window), "bad"
\* (unparsable); a measurement without the key fails the same way as "bad".
\* (a validator that forgets the penalty for an old timestamp)
quality_factor_no_age_penalty(warning) ==
    CASE warning = "pm25_max" -> 800
      [] warning = "temperature" -> 900
      [] OTHER -> 1000

\* the factor each warning multiplies quality_score by, in thousandths
quality_factor(warning) ==
    CASE warning = "pm25_max" -> 800
      [] warning = "temperature" -> 900
      [] warning = "timestamp_old" -> 950
      [] OTHER -> 1000

validate_measurement(measurement) ==
    LET pm25 == Get(measurement, "pm25", 0)
        temp == Get(measurement, "temperature", NoneVal)
        ts == Get(measurement, "timestamp", "bad")
        pmHigh == pm25 > 900
        pmLow == pm25 < 0
        tempOut == temp # NoneVal /\ (temp > 50 \/ temp < 5)
        tsOld == ts = "old"
        tsBad == ts \notin {"ok", "old"}
        q1 == IF pmHigh THEN quality_factor("pm25_max") ELSE 1000
        q2 == IF tempOut THEN (q1 * quality_factor("temperature")) \div 1000 ELSE q1
        q3 == IF tsOld THEN (q2 * quality_factor("timestamp_old")) \div 1000 ELSE q2
    IN  [is_valid |-> ~pmLow /\ ~tsBad,
         warnings |-> (IF pmHigh THEN {"pm25_max"} ELSE {})
                      \cup (IF tempOut THEN {"temperature"} ELSE {})
                      \cup (IF tsOld THEN {"timestamp_old"} ELSE {}),
         errors |-> (IF pmLow THEN {"pm25_min"} ELSE {})
                    \cup (IF tsBad THEN {"timestamp_format"} ELSE {}),
         quality_score |-> q3]

RECURSIVE SumSeq(_)
SumSeq(q) == IF q = <<>> THEN 0 ELSE Head(q) + SumSeq(Tail(q))

validate_batch_clean_only(measurements) ==
    LET results == [i \in 1..Len(measurements) |-> validate_measurement(measurements[i])]
        count(P(_)) == Cardinality({i \in 1..Len(measurements) : P(results[i])})
        valid(r) == r.is_valid /\ r.warnings = {}
        warned(r) == r.warnings # {}
        failed(r) == r.errors # {}
    IN  [total_measurements |-> Len(measurements),
         valid_measurements |-> count(valid),
         measurements_with_warnings |-> count(warned),
         measurements_with_errors |-> count(failed),
         validation_rate |-> [num |-> count(valid), den |-> Len(measurements)],
         average_quality_score |->
             [num |-> SumSeq([i \in 1..Len(measurements) |-> results[i].quality_score]),
              den |-> Len(measurements)]]

\* DhakaDataValidator.validate_batch; a quotient is the pair [num, den]
\* (den = 0 stands for the code's "0 when the batch is empty").
validate_batch(measurements) ==
    LET results == [i \in 1..Len(measurements) |-> validate_measurement(measurements[i])]
        count(P(_)) == Cardinality({i \in 1..Len(measurements) : P(results[i])})
        valid(r) == r.is_valid
        warned(r) == r.warnings # {}
        failed(r) == r.errors # {}
    IN  [total_measurements |-> Len(measurements),
         valid_measurements |-> count(valid),
         measurements_with_warnings |-> count(warned),
         measurements_with_errors |-> count(failed),
         validation_rate |-> [num |-> count(valid), den |-> Len(measurements)],
         average_quality_score |->
             [num |-> SumSeq([i \in 1..Len(measurements) |-> results[i].quality_score]),
              den |-> Len(measurements)]]

\* DhakaAirQualityTool.execute: outcomes[i] is what sensor task i ended with,
\* a measurement record, [none |-> TRUE] (the task returned None) or
\* [failed |-> TRUE] (the task ended with an exception that gather returned).
IsMeasurement(o) == "pm25" \in DOMAIN o

air_quality_tool_execute(outcomes) == SelectSeq(outcomes, IsMeasurement)

\* the tasks of DhakaAirQualityTool.execute: one per sensor of all_sensors
\* whose is_active is set, in the order of all_sensors (sensors are named by
\* their index)
tasks_for_every_sensor(all_sensors) ==
    [i \in 1..Len(all_sensors) |-> i]

tasks(all_sensors) ==
    LET is_active(i) == all_sensors[i].is_active
    IN  SelectSeq([i \in 1..Len(all_sensors) |-> i], is_active)

\* _collect_from_sensor as gather sees it: the measurement record of the
\* sensor, None when the body's own handler caught an exception, or an
\* exception that escaped the coroutine
collect_from_sensor(sensor, ending) ==
    CASE ending = "measurement" ->
             [station_id |-> sensor, pm25 |-> 120, temperature |-> 28,
              timestamp |-> "ok"]
      [] ending = "none" -> [none |-> TRUE]
      [] OTHER -> [failed |-> TRUE]

\* asyncio.gather(*tasks, return_exceptions=True)
gather(launched, endings) ==
    [i \in 1..Len(launched) |-> collect_from_sensor(launched[i], endings[launched[i]])]

update_collection_stats_nonempty_only(stats, measurement_count) ==
    [total_collections |->
         stats.total_collections + (IF measurement_count > 0 THEN 1 ELSE 0),
     successful_collections |->
         stats.successful_collections + (IF measurement_count > 0 THEN 1 ELSE 0),
     average_sensors_per_collection |->
         [num |-> stats.average_sensors_per_collection.num + measurement_count,
          den |-> stats.total_collections + 1]]

\* _update_collection_stats; the rolling average is the pair [num, den]
update_collection_stats(stats, measurement_count) ==
    [total_collections |-> stats.total_collections + 1,
     successful_collections |->
         stats.successful_collections + (IF measurement_count > 0 THEN 1 ELSE 0),
     average_sensors_per_collection |->
         [num |-> stats.average_sensors_per_collection.num + measurement_count,
          den |-> stats.total_collections + 1]]

\* (an except handler that leaves the timestamp out)
run_error_no_timestamp(step) == [status |-> "error", error |-> step]

run_error(step) == [status |-> "error", error |-> step, timestamp |-> "now"]

\* DhakaAgent.run: [result, raised, stats].  fault names the awaited step in
\* which an exception is thrown ("none": no exception); _store_measurements
\* and _share_cross_border_data catch their own and return False.
dhaka_run(outcomes, fault, stats) ==
    IF fault = "collect"
    THEN [result |-> run_error("collect"), raised |-> FALSE, stats |-> stats]
    ELSE
    Bind(air_quality_tool_execute(outcomes), LAMBDA raw_measurements :
        IF raw_measurements = <<>>
        THEN [result |-> [status |-> "no_data", timestamp |-> "now"],
              raised |-> FALSE, stats |-> stats]
        ELSE IF fault = "validate"
        THEN [result |-> run_error("validate"), raised |-> FALSE, stats |-> stats]
        ELSE
        LET is_valid(m) == validate_measurement(m).is_valid
        IN  Bind(validate_batch(raw_measurements), LAMBDA validation_results :
            Bind(SelectSeq(raw_measurements, is_valid), LAMBDA valid_measurements :
            [result |-> [status |-> "success",
                         timestamp |-> "now",
                         collection_summary |->
                             [raw_measurements |-> Len(raw_measurements),
                              valid_measurements |-> Len(valid_measurements),
                              validation_rate |-> validation_results.validation_rate,
                              average_quality |-> validation_results.average_quality_score],
                         storage_success |-> fault # "store",
                         sharing_success |-> fault # "share"],
             raised |-> FALSE,
             stats |-> update_collection_stats(stats, Len(valid_measurements))])))

(***************************************************************************)
(* KolkataAgent (kolkata_agent.py)                                         *)
(***************************************************************************)
KolkataTasks == {"weather", "forecast", "aerosol", "atmospheric", "traffic"}

update_processing_stats(stats) ==
    [total_runs |-> stats.total_runs + 1,
     successful_runs |-> stats.successful_runs + 1]

\* KolkataAgent.run: [result, raised, stats].  failed is the set of source
\* tasks that gather returned as exceptions; fault is as for dhaka_run
\* ("merge": thrown while merging and analysing, "share": thrown while
\* sending, which _share_cross_border_data catches).
kolkata_run(failed, fault, stats) ==
    IF fault = "merge"
    THEN [result |-> run_error("merge"), raised |-> FALSE, stats |-> stats]
    ELSE
    LET avail(t) == IF t \in failed THEN "unavailable" ELSE "available"
    IN  [result |-> [status |-> "success",
                     timestamp |-> "now",
                     data_sources |-> [weather_model |-> avail("weather"),
                                       satellite_data |-> avail("aerosol"),
                                       traffic_monitoring |-> avail("traffic")],
                     forecast_summary |->
                         [hours_available |-> IF "forecast" \in failed THEN 0 ELSE 24],
                     transboundary_analysis |->
                         [status |-> avail("weather")],
                     emission_estimates |->
                         [status |-> avail("traffic")],
                     cross_border_sharing |-> fault # "share"],
          raised |-> FALSE,
          stats |-> update_processing_stats(stats)]

(***************************************************************************)
(* State                                                                   *)
(***************************************************************************)
VARIABLES
    active_policies,      \* country -> active_policies of its PolicyCoordinationProtocol
    clock,                \* datetime.now() as a counter; names the next proposal
    orchestration_stats,  \* RegionalOrchestrator.orchestration_stats
    collection_stats,     \* DhakaAgent.collection_stats
    processing_stats,     \* KolkataAgent.processing_stats
    agent,                \* whose run was called last ("none" before the first call)
    input,                \* the argument of the last call
    result,               \* the record the last call returned
    raised,               \* TRUE iff the last call ended with an exception
    sent,                 \* the channel sends the last call made
    calls,                \* agent -> number of run calls made
    succeeded             \* agent -> number of run calls that returned status success

vars == <<active_policies, clock, orchestration_stats, collection_stats,
          processing_stats, agent, input, result, raised, sent, calls, succeeded>>

\* bounds of the model
MaxRuns == 2
MaxAgentRuns == 1
NumSensors == 2
MaxProposals == 2

Agents == {"orchestrator", "dhaka", "kolkata"}

Rec(pm25, wind_speed, wind_direction, boundary_layer_height) ==
    [pm25 |-> pm25, wind_speed_ms |-> wind_speed, wind_direction_deg |-> wind_direction,
     boundary_layer_height_m |-> boundary_layer_height, timestamp |-> "ok"]

\* the records offered as dhaka_data / kolkata_data
CityRecords ==
    { Rec(45, 42, 90, 1200),
      Rec(139, 35, 270, 800),
      Rec(160, 40, 270, 800),
      Rec(160, 40, 90, 800),
      Rec(160, 40, 0, 400),
      Rec(110, 40, 270, 800),
      Rec(110, 40, 90, 800),
      Rec(-5, 40, 270, 800),
      Rec(160, 40, NonNumeric, 800),
      ("country_code" :> "XX") @@ Rec(950, 350, 270, 800),
      ("country_code" :> "IN") @@ Rec(139, 35, 270, 800),
      [Rec(160, 40, 270, 800) EXCEPT !.timestamp = "bad"] }

CityInputs ==
    {[kind |-> "missing"], [kind |-> "empty"], [kind |-> "nondict"]}
    \cup {[kind |-> "dict", data |-> r] : r \in CityRecords}

Contexts ==
    {[kind |-> "none"], [kind |-> "nondict"]}
    \cup {[kind |-> "dict", dhaka_data |-> d, kolkata_data |-> k, other_keys |-> FALSE] :
            d \in CityInputs, k \in CityInputs}
    \cup {[kind |-> "dict", dhaka_data |-> [kind |-> "missing"],
           kolkata_data |-> [kind |-> "missing"], other_keys |-> TRUE]}

\* what a Dhaka sensor task can end with
DhakaMeasurements ==
    {[pm25 |-> pm, temperature |-> 28, timestamp |-> "ok"] : pm \in {95, 170}}
SensorOutcomes == DhakaMeasurements \cup {[none |-> TRUE], [failed |-> TRUE]}
DhakaFaults == {"none", "collect", "validate", "store", "share"}
KolkataFaults == {"none", "merge", "share"}

\* The three agents are separate objects that share no state, so a behaviour
\* drives one of them: the first call picks the agent, later calls repeat it.
Drives(a) == agent \in {"none", a}

Called(a, res) ==
    /\ agent' = a
    /\ calls' = [calls EXCEPT ![a] = @ + 1]
    /\ succeeded' = [succeeded EXCEPT ![a] = @ + (IF res.status = "success" THEN 1 ELSE 0)]

\* the three agents and the protocols right after construction
Constructed ==
    /\ orchestration_stats = [total_runs |-> 0, successful_runs |-> 0,
                              alerts_generated |-> 0, policies_coordinated |-> 0]
    /\ collection_stats = [total_collections |-> 0, successful_collections |-> 0,
                           average_sensors_per_collection |-> [num |-> 0, den |-> 1]]
    /\ processing_stats = [total_runs |-> 0, successful_runs |-> 0]
    /\ agent = "none"
    /\ result = <<>>
    /\ raised = FALSE
    /\ sent = {}
    /\ calls = [a \in Agents |-> 0]
    /\ succeeded = [a \in Agents |-> 0]

Init ==
    /\ Constructed
    /\ active_policies = [c \in Countries |-> <<>>]
    /\ clock = 1
    /\ input = <<>>

\* await orchestrator.run(context)
Run ==
    /\ Drives("orchestrator")
    /\ calls["orchestrator"] < MaxRuns
    /\ \E context \in Contexts :
        \E r \in {run(context, orchestration_stats, active_policies, clock)} :
            /\ input' = context
            /\ result' = r.result
            /\ raised' = r.raised
            /\ sent' = r.sends
            /\ orchestration_stats' = r.stats
            /\ active_policies' = r.policies
            /\ clock' = r.clock
            /\ Called("orchestrator", r.result)
    /\ UNCHANGED <<collection_stats, processing_stats>>

\* await dhaka_agent.run()
DhakaRun ==
    /\ Drives("dhaka")
    /\ calls["dhaka"] < MaxAgentRuns
    /\ \E outcomes \in [1..NumSensors -> SensorOutcomes], fault \in DhakaFaults :
        \E r \in {dhaka_run(outcomes, fault, collection_stats)} :
            /\ input' = [outcomes |-> outcomes, fault |-> fault]
            /\ result' = r.result
            /\ raised' = r.raised
            /\ collection_stats' = r.stats
            /\ Called("dhaka", r.result)
    /\ sent' = {}
    /\ UNCHANGED <<active_policies, clock, orchestration_stats, processing_stats>>

\* await kolkata_agent.run()
KolkataRun ==
    /\ Drives("kolkata")
    /\ calls["kolkata"] < MaxAgentRuns
    /\ \E failed \in SUBSET KolkataTasks, fault \in KolkataFaults :
        \E r \in {kolkata_run(failed, fault, processing_stats)} :
            /\ input' = [failed |-> failed, fault |-> fault]
            /\ result' = r.result
            /\ raised' = r.raised
            /\ processing_stats' = r.stats
            /\ Called("kolkata", r.result)
    /\ sent' = {}
    /\ UNCHANGED <<active_policies, clock, orchestration_stats, collection_stats>>

Next == Run \/ DhakaRun \/ KolkataRun

Spec == Init /\ [][Next]_vars

(***************************************************************************)
(* TransboundaryModel.execute applied to meteorological records            *)
(***************************************************************************)
WindSpeeds == {-10, 0, 4, 5, 9, 10, 29, 30, 59, 60, 120, 350}
WindDirections == {0, 44, 45, 90, 135, 136, 224, 225, 270, 315, 316, 359}
BoundaryLayerHeights == {0, 499, 500, 999, 1000, 2000}
CountryCodes == {"BD", "IN", "XX"}

ModelInputs ==
    {[wind_speed_ms |-> ws, wind_direction_deg |-> wd,
      boundary_layer_height_m |-> bl, country_code |-> cc] :
        ws \in WindSpeeds, wd \in WindDirections,
        bl \in BoundaryLayerHeights, cc \in CountryCodes}
    \cup {[wind_speed_ms |-> ws, boundary_layer_height_m |-> bl] :
            ws \in WindSpeeds, bl \in BoundaryLayerHeights}
    \cup {<<>>}

InitModel ==
    /\ Constructed
    /\ active_policies = [c \in Countries |-> <<>>]
    /\ clock = 1
    /\ input \in ModelInputs

\* await transboundary_model.execute(input)
ModelExecute ==
    /\ agent = "none"
    /\ result' = TransboundaryModel_execute(input)
    /\ agent' = "transboundary_model"
    /\ UNCHANGED <<active_policies, clock, orchestration_stats, collection_stats,
                   processing_stats, input, raised, sent, calls, succeeded>>

\* self._calculate_transport_efficiency(wind_speed, wind_direction,
\* boundary_layer_height, country) on a record that gives all four arguments
CalculateTransportEfficiency ==
    /\ agent = "none"
    /\ DOMAIN input = {"wind_speed_ms", "wind_direction_deg",
                       "boundary_layer_height_m", "country_code"}
    /\ result' = [transport_efficiency |->
                    calculate_transport_efficiency(input.wind_speed_ms,
                                                   input.wind_direction_deg,
                                                   input.boundary_layer_height_m,
                                                   input.country_code)]
    /\ agent' = "calculate_transport_efficiency"
    /\ UNCHANGED <<active_policies, clock, orchestration_stats, collection_stats,
                   processing_stats, input, raised, sent, calls, succeeded>>

NextModel == ModelExecute \/ CalculateTransportEfficiency

SpecModel == InitModel /\ [][NextModel]_vars

(***************************************************************************)
(* PolicyCoordinationProtocol on its own.  respond_to_proposal answers "a  *)
(* policy proposal from another country": the instance's active_policies   *)
(* holds proposals as they were received, which may carry the response the *)
(* sender recorded.  The receiving side is not part of the sources         *)
(* (_notify_neighbors is a stub), so the stored proposals are drawn here.  *)
(***************************************************************************)
ResponseMaps1 ==
    {<<>>} \cup {(c :> r) : c \in Countries, r \in Responses}

StoredProposals ==
    {[new_proposal(c, 1, "transboundary_notification", <<>>) EXCEPT !.responses = m] :
        c \in Countries, m \in ResponseMaps1}

InitProtocol ==
    /\ Constructed
    /\ active_policies \in [Countries -> {<<>>} \cup {(1 :> p) : p \in StoredProposals}]
    /\ clock = 2
    /\ input = <<>>

\* await protocol.propose_joint_action(action_type, details) on the instance
\* of country c
Propose ==
    /\ clock <= MaxProposals
    /\ \E c \in Countries,
          action_type \in {"bilateral_emergency_response", "transboundary_notification"} :
        /\ active_policies' = [active_policies EXCEPT ![c] =
               propose_joint_action(@, c, clock, action_type, <<>>)]
        /\ input' = [country_code |-> c, action_type |-> action_type]
        /\ result' = [proposal_id |-> clock]
    /\ clock' = clock + 1
    /\ agent' = "propose_joint_action"
    /\ UNCHANGED <<orchestration_stats, collection_stats, processing_stats,
                   raised, sent, calls, succeeded>>

\* await protocol.respond_to_proposal(proposal_id, response) on the instance
\* of country c
Respond ==
    /\ \E c \in Countries, proposal_id \in 1..MaxProposals, response \in Responses :
        \E r \in {respond_to_proposal(active_policies[c], c, proposal_id, response)} :
            /\ active_policies' = [active_policies EXCEPT ![c] = r.policies]
            /\ input' = [country_code |-> c, proposal_id |-> proposal_id,
                         response |-> response]
            /\ result' = [ok |-> r.ok]
    /\ agent' = "respond_to_proposal"
    /\ UNCHANGED <<clock, orchestration_stats, collection_stats, processing_stats,
                   raised, sent, calls, succeeded>>

NextProtocol == Propose \/ Respond

SpecProtocol == InitProtocol /\ [][NextProtocol]_vars

(***************************************************************************)
(* The two validators applied to single measurements                       *)
(***************************************************************************)
Pm25Values == {-5, -1, 0, 50, 900, 901, 950}
Temperatures == {4, 5, 28, 50, 51}
ValidatorWindSpeeds == {40, 300, 301}
Timestamps == {"ok", "old", "bad"}

\* a measurement is a record of some of the keys pm25, temperature,
\* wind_speed_ms and timestamp
MeasurementsWith(keys) ==
    {[k \in keys |-> f[k]] :
        f \in [pm25 : Pm25Values, temperature : Temperatures,
               wind_speed_ms : ValidatorWindSpeeds, timestamp : Timestamps]}

Measurements ==
    UNION {MeasurementsWith(keys) :
              keys \in SUBSET {"pm25", "temperature", "wind_speed_ms", "timestamp"}}

InitValidate ==
    /\ Constructed
    /\ active_policies = [c \in Countries |-> <<>>]
    /\ clock = 1
    /\ input \in Measurements

\* validator.validate_measurement(input) of the Dhaka agent
ValidateMeasurement ==
    /\ agent = "none"
    /\ result' = validate_measurement(input)
    /\ agent' = "validate_measurement"
    /\ UNCHANGED <<active_policies, clock, orchestration_stats, collection_stats,
                   processing_stats, input, raised, sent, calls, succeeded>>

\* await data_validator.execute(input) of the orchestrator
ValidatorExecute ==
    /\ agent = "none"
    /\ result' = DataValidator_execute(input)
    /\ agent' = "data_validator"
    /\ UNCHANGED <<active_policies, clock, orchestration_stats, collection_stats,
                   processing_stats, input, raised, sent, calls, succeeded>>

NextValidate == ValidateMeasurement \/ ValidatorExecute

SpecValidate == InitValidate /\ [][NextValidate]_vars

(***************************************************************************)
(* PolicyDecisionEngine.execute called repeatedly on one input; the clock  *)
(* is the reading of datetime.now(), which may or may not have advanced    *)
(* between two calls.                                                      *)
(***************************************************************************)
MaxPolicyClock == 2

PolicyPm25 == {0, 45, 46, 49, 50, 89, 90, 99, 100, 119, 120, 139, 149, 150,
               179, 180, 199, 200, 500}
TransboundaryPercents == {0, 24, 30, 31, 71}

PolicyInputs ==
    {[pm25 |-> pm, country_code |-> cc, transboundary_percentage |-> tp] :
        pm \in PolicyPm25, cc \in CountryCodes, tp \in TransboundaryPercents}
    \cup {[pm25 |-> pm, transboundary_percentage |-> tp] :
            pm \in PolicyPm25, tp \in TransboundaryPercents}
    \cup {[pm25 |-> pm, country_code |-> cc] : pm \in PolicyPm25, cc \in CountryCodes}
    \cup {<<>>}

InitPolicy ==
    /\ Constructed
    /\ active_policies = [c \in Countries |-> <<>>]
    /\ clock = 1
    /\ input \in PolicyInputs

\* await policy_engine.execute(input)
PolicyExecute ==
    /\ clock <= MaxPolicyClock
    /\ \E now \in {clock, clock + 1} :
        /\ result' = PolicyDecisionEngine_execute_at(input, now)
        /\ clock' = now
    /\ agent' = "policy_engine"
    /\ UNCHANGED <<active_policies, orchestration_stats, collection_stats,
                   processing_stats, input, raised, sent, calls, succeeded>>

SpecPolicy == InitPolicy /\ [][PolicyExecute]_vars

(***************************************************************************)
(* EmissionTracker.execute applied to records with pm25 in hundredths      *)
(***************************************************************************)
\* pm25 in hundredths; no value times a factor lies halfway between two
\* tenths, where the binary product decides the rounding
EmissionPm25 == {0, 5, 30, 4560, 4567, 10000, 12345, 13900, 13926, 30010}
EmissionWinds == {[wind_direction_deg |-> 270, wind_speed_ms |-> 35],
                  [wind_direction_deg |-> 90, wind_speed_ms |-> 42],
                  [wind_direction_deg |-> 270, wind_speed_ms |-> 50],
                  [wind_direction_deg |-> 90, wind_speed_ms |-> 120],
                  [wind_direction_deg |-> 0, wind_speed_ms |-> 40]}

EmissionInputs ==
    {("pm25" :> pm) @@ ("country_code" :> cc) @@ w :
        pm \in EmissionPm25, cc \in CountryCodes, w \in EmissionWinds}
    \cup {("pm25" :> pm) @@ w : pm \in EmissionPm25, w \in EmissionWinds}
    \cup {[pm25 |-> pm] : pm \in EmissionPm25}

InitEmission ==
    /\ Constructed
    /\ active_policies = [c \in Countries |-> <<>>]
    /\ clock = 1
    /\ input \in EmissionInputs

\* await emission_tracker.execute(input)
EmissionExecute ==
    /\ agent = "none"
    /\ result' = EmissionTracker_execute_scaled(input, 100)
    /\ agent' = "emission_tracker"
    /\ UNCHANGED <<active_policies, clock, orchestration_stats, collection_stats,
                   processing_stats, input, raised, sent, calls, succeeded>>

SpecEmission == InitEmission /\ [][EmissionExecute]_vars

(***************************************************************************)
(* DhakaDataValidator.validate_batch and the filter of DhakaAgent.run      *)
(* applied to batches of measurements                                      *)
(***************************************************************************)
MaxBatch == 3

BatchMeasurements ==
    { [pm25 |-> 95, temperature |-> 28, timestamp |-> "ok"],
      [pm25 |-> 950, temperature |-> 51, timestamp |-> "old"],
      [pm25 |-> -5, temperature |-> 28, timestamp |-> "ok"],
      [pm25 |-> 170, temperature |-> 4, timestamp |-> "bad"] }

Batches == UNION {[1..n -> BatchMeasurements] : n \in 0..MaxBatch}

InitBatch ==
    /\ Constructed
    /\ active_policies = [c \in Countries |-> <<>>]
    /\ clock = 1
    /\ input \in Batches

\* self.validator.validate_batch(input)
ValidateBatch ==
    /\ agent = "none"
    /\ result' = validate_batch(input)
    /\ agent' = "validate_batch"
    /\ UNCHANGED <<active_policies, clock, orchestration_stats, collection_stats,
                   processing_stats, input, raised, sent, calls, succeeded>>

\* step 2 of DhakaAgent.run on the non-empty batch it collected: the batch
\* summary, then the measurements it keeps
RunValidates ==
    /\ agent = "none"
    /\ input # <<>>
    /\ LET is_valid(m) == validate_measurement(m).is_valid
       IN  result' = [validation_results |-> validate_batch(input),
                      valid_measurements |-> SelectSeq(input, is_valid)]
    /\ agent' = "dhaka_step_2"
    /\ UNCHANGED <<active_policies, clock, orchestration_stats, collection_stats,
                   processing_stats, input, raised, sent, calls, succeeded>>

NextBatch == ValidateBatch \/ RunValidates

SpecBatch == InitBatch /\ [][NextBatch]_vars

(***************************************************************************)
(* DhakaAirQualityTool.execute applied to sensor lists                     *)
(***************************************************************************)
NumToolSensors == 3
SensorEndings == {"measurement", "none", "exception"}

InitCollect ==
    /\ Constructed
    /\ active_policies = [c \in Countries |-> <<>>]
    /\ clock = 1
    /\ input \in [all_sensors : [1..NumToolSensors -> [is_active : BOOLEAN]],
                   endings : [1..NumToolSensors -> SensorEndings]]

\* await air_quality_tool.execute()
ToolExecute ==
    /\ agent = "none"
    /\ \E launched \in {tasks(input.all_sensors)} :
          result' = [tasks |-> launched,
                     valid_measurements |->
                         air_quality_tool_execute(gather(launched, input.endings))]
    /\ raised' = FALSE
    /\ agent' = "air_quality_tool"
    /\ UNCHANGED <<active_policies, clock, orchestration_stats, collection_stats,
                   processing_stats, input, sent, calls, succeeded>>

SpecCollect == InitCollect /\ [][ToolExecute]_vars

(***************************************************************************)
(* DhakaAirQualityTool.execute step by step: the sensor coroutines run     *)
(* concurrently under asyncio.gather and each ends on its own, or never.   *)
(***************************************************************************)
TaskEndings == SensorEndings \cup {"hangs"}

InitGather ==
    /\ Constructed
    /\ active_policies = [c \in Countries |-> <<>>]
    /\ clock = 1
    /\ input \in [all_sensors : [1..NumToolSensors -> [is_active : BOOLEAN]],
                   endings : [1..NumToolSensors -> TaskEndings]]

\* execute up to the await: the coroutines of the active sensors are created
\* and handed to gather
GatherStart ==
    /\ agent = "none"
    /\ \E launched \in {tasks(input.all_sensors)} :
          result' = [tasks |-> launched,
                     pending |-> {launched[i] : i \in DOMAIN launched}]
    /\ agent' = "gather"
    /\ UNCHANGED <<active_policies, clock, orchestration_stats, collection_stats,
                   processing_stats, input, raised, sent, calls, succeeded>>

\* one coroutine ends (with a record, None or an exception); a coroutine
\* that hangs never takes this step, and nothing in the tool cancels it
TaskEnds ==
    /\ agent = "gather"
    /\ \E sensor \in result.pending :
          /\ input.endings[sensor] # "hangs"
          /\ result' = [result EXCEPT !.pending = @ \ {sensor}]
    /\ UNCHANGED <<active_policies, clock, orchestration_stats, collection_stats,
                   processing_stats, agent, input, raised, sent, calls, succeeded>>

\* gather resumes execute once every coroutine has ended; the results are
\* filtered and returned
GatherReturns ==
    /\ agent = "gather"
    /\ result.pending = {}
    /\ result' = [tasks |-> result.tasks,
                  valid_measurements |->
                      air_quality_tool_execute(gather(result.tasks, input.endings))]
    /\ raised' = FALSE
    /\ agent' = "air_quality_tool"
    /\ UNCHANGED <<active_policies, clock, orchestration_stats, collection_stats,
                   processing_stats, input, sent, calls, succeeded>>

NextGather == GatherStart \/ TaskEnds \/ GatherReturns

\* the event loop keeps running every coroutine that can run
SpecGather == InitGather /\ [][NextGather]_vars /\ WF_vars(NextGather)

(***************************************************************************)
(* Several DhakaAgent.run() coroutines of one agent under asyncio.gather:  *)
(* a coroutine runs without interruption from one await to the next.       *)
(***************************************************************************)
NumCalls == 2
RunCalls == 1..NumCalls

\* what air_quality_tool.execute() hands to a call
CollectedBatches ==
    { <<>>,
      <<[pm25 |-> 95, temperature |-> 28, timestamp |-> "ok"]>>,
      <<[pm25 |-> -5, temperature |-> 28, timestamp |-> "ok"]>>,
      <<[pm25 |-> 170, temperature |-> 28, timestamp |-> "ok"],
        [pm25 |-> -5, temperature |-> 28, timestamp |-> "ok"]>> }

InitConcurrent ==
    /\ Constructed
    /\ active_policies = [c \in Countries |-> <<>>]
    /\ clock = 1
    /\ input = <<>>

\* tasks = [dhaka_agent.run() for _ in ...]; asyncio.gather(*tasks)
GatherRuns ==
    /\ agent = "none"
    /\ agent' = "dhaka_tasks"
    /\ result' = [c \in RunCalls |-> [pc |-> "created"]]
    /\ UNCHANGED <<active_policies, clock, orchestration_stats, collection_stats,
                   processing_stats, input, raised, sent, calls, succeeded>>

ConcurrentFrame ==
    UNCHANGED <<active_policies, clock, orchestration_stats, processing_stats,
                agent, input, raised, sent, calls, succeeded>>

\* run() up to "await self.air_quality_tool.execute()"; begun_at records how
\* many collections the agent had counted when the call began
RunStarts(c) ==
    /\ agent = "dhaka_tasks"
    /\ result[c].pc = "created"
    /\ result' = [result EXCEPT ![c] =
                      [pc |-> "collect",
                       begun_at |-> collection_stats.total_collections]]
    /\ UNCHANGED collection_stats
    /\ ConcurrentFrame

\* execute() returns or raises; run() validates and filters the batch and
\* goes on to "await self._store_measurements(...)"
Collected(c) ==
    /\ agent = "dhaka_tasks"
    /\ result[c].pc = "collect"
    /\ \E raw_measurements \in CollectedBatches, fault \in {"none", "collect", "validate"} :
          result' = [result EXCEPT ![c] =
              IF fault = "collect"
              THEN [pc |-> "done", begun_at |-> @.begun_at, result |-> run_error("collect")]
              ELSE IF raw_measurements = <<>>
              THEN [pc |-> "done", begun_at |-> @.begun_at,
                    result |-> [status |-> "no_data", timestamp |-> "now"]]
              ELSE IF fault = "validate"
              THEN [pc |-> "done", begun_at |-> @.begun_at, result |-> run_error("validate")]
              ELSE LET is_valid(m) == validate_measurement(m).is_valid
                   IN  [pc |-> "store", begun_at |-> @.begun_at,
                        raw_measurements |-> Len(raw_measurements),
                        valid_measurements |->
                            Len(SelectSeq(raw_measurements, is_valid))]]
    /\ UNCHANGED collection_stats
    /\ ConcurrentFrame

\* _store_measurements returns; run() goes on to
\* "await self._share_cross_border_data(...)"
Stored(c) ==
    /\ agent = "dhaka_tasks"
    /\ result[c].pc = "store"
    /\ \E storage_success \in BOOLEAN :
          result' = [result EXCEPT ![c] =
              [pc |-> "share", begun_at |-> @.begun_at,
               raw_measurements |-> @.raw_measurements,
               valid_measurements |-> @.valid_measurements,
               storage_success |-> storage_success]]
    /\ UNCHANGED collection_stats
    /\ ConcurrentFrame

\* _share_cross_border_data returns; run() updates the statistics and
\* returns its record with no await in between
Shared(c) ==
    /\ agent = "dhaka_tasks"
    /\ result[c].pc = "share"
    /\ collection_stats' =
           update_collection_stats(collection_stats, result[c].valid_measurements)
    /\ \E sharing_success \in BOOLEAN :
          result' = [result EXCEPT ![c] =
              [pc |-> "done", begun_at |-> @.begun_at,
               result |-> [status |-> "success",
                           timestamp |-> "now",
                           collection_summary |->
                               [raw_measurements |-> @.raw_measurements,
                                valid_measurements |-> @.valid_measurements],
                           storage_success |-> @.storage_success,
                           sharing_success |-> sharing_success]]]
    /\ ConcurrentFrame

NextConcurrent ==
    \/ GatherRuns
    \/ \E c \in RunCalls : RunStarts(c) \/ Collected(c) \/ Stored(c) \/ Shared(c)

\* the event loop resumes every coroutine whose await has completed
SpecConcurrent == InitConcurrent /\ [][NextConcurrent]_vars /\ WF_vars(NextConcurrent)

(***************************************************************************)
(* Properties                                                              *)
(***************************************************************************)
Statuses == {"success", "no_data", "validation_failed", "error"}

OrchestratorSuccess == agent = "orchestrator" /\ result.status = "success"
DhakaResult == result.cities.dhaka
KolkataResult == result.cities.kolkata
CoordinatedActions == result.cross_border_coordination.coordinated_actions
Alerts == result.alerts.alerts

\* the city was processed and its policy decision asks for coordination
Needs(r) ==
    /\ r.status = "success"
    /\ r.policy_recommendations.cross_border_coordination_needed

Severe(r) ==
    /\ r.status = "success"
    /\ r.policy_recommendations.air_quality_category \in {"severe", "emergency"}

\* adjusted transboundary fraction of a processed city, in hundredths
Fraction(r) == r.transboundary_model.adjusted_coefficients.transboundary

AlertsOfType(type) == {i \in 1..Len(Alerts) : Alerts[i].alert.alert_type = type}

ChannelsSent(country, type) ==
    {m.channel : m \in {x \in sent : x.protocol = country /\ x.alert_type = type}}

\* C1: the run of the Dhaka agent, of the Kolkata agent and of the
\* orchestrator never ends with an exception: whatever the input, the call
\* returns a record with a status in {success, no_data, validation_failed,
\* error} and a timestamp.
C1_RunAlwaysReturnsRecord ==
    agent \in Agents =>
        /\ ~raised
        /\ "status" \in DOMAIN result
        /\ result.status \in Statuses
        /\ "timestamp" \in DOMAIN result

\* an exception thrown inside a step of the Dhaka agent came back as a record
C1_Witness == agent = "dhaka" /\ input.fault = "validate" /\ result.status = "error"

\* C2: the adjusted coefficients that TransboundaryModel.execute returns sum
\* to 1 and each lies in [0, 1], for every wind speed, direction,
\* boundary-layer height and country code.
C2_AdjustedCoefficientsSumToOne ==
    (agent = "transboundary_model" /\ ~result.exc) =>
        LET c == result.adjusted_coefficients
        IN  /\ c.local + c.transboundary = 100
            /\ c.local \in 0..100
            /\ c.transboundary \in 0..100

\* BD at the clamped efficiency 0.9: 0.06 local, 0.94 transboundary
C2_Witness ==
    /\ agent = "transboundary_model"
    /\ result.adjusted_coefficients = [local |-> 6, transboundary |-> 94]

\* what one successful orchestrator run does to the coordination result and
\* to the two protocols, by which cities need coordination
C3_Step ==
    LET d == result'.cities.dhaka
        k == result'.cities.kolkata
        coordination == result'.cross_border_coordination
        acts == coordination.coordinated_actions
        created(c) == DOMAIN active_policies'[c] \ DOMAIN active_policies[c]
        one(type, status, proposer, other) ==
            /\ Len(acts) = 1
            /\ acts[1].action_type = type
            /\ acts[1].status = status
            /\ created(proposer) = {acts[1].proposal_id}
            /\ created(other) = {}
            /\ active_policies'[proposer][acts[1].proposal_id].proposing_country = proposer
            /\ active_policies'[proposer][acts[1].proposal_id].action_type = type
    IN  /\ (Needs(d) /\ Needs(k)) =>
                one("bilateral_emergency_response", "approved", "BD", "IN")
        /\ (Needs(d) /\ ~Needs(k)) =>
                /\ one("transboundary_notification", "proposed", "BD", "IN")
                /\ DOMAIN active_policies'["BD"][acts[1].proposal_id].responses = {}
        /\ (~Needs(d) /\ Needs(k)) =>
                /\ one("transboundary_notification", "proposed", "IN", "BD")
                /\ DOMAIN active_policies'["IN"][acts[1].proposal_id].responses = {}
        /\ (~Needs(d) /\ ~Needs(k)) =>
                /\ coordination.status = "not_needed"
                /\ acts = <<>>
                /\ active_policies' = active_policies

\* C3: an orchestrator run produces exactly one approved
\* bilateral_emergency_response proposed from BD when both cities need
\* coordination, exactly one transboundary_notification left proposed (and
\* unanswered) by the country of the one city that needs it, and nothing
\* (status not_needed, no proposal created in either protocol) when neither
\* needs it.
C3_CoordinationByNeed ==
    [][(agent' = "orchestrator" /\ result'.status = "success") => C3_Step]_vars

\* both cities need coordination and the run reports the joint action
C3_Witness ==
    /\ OrchestratorSuccess
    /\ Needs(DhakaResult) /\ Needs(KolkataResult)
    /\ Len(CoordinatedActions) = 1
    /\ CoordinatedActions[1].action_type = "bilateral_emergency_response"

\* C4: after the bilateral path the proposal stored under the returned
\* proposal_id carries India's accept and has status approved, which is the
\* status the run reports.
C4_StoredProposalApproved ==
    (/\ OrchestratorSuccess
     /\ Len(CoordinatedActions) = 1
     /\ CoordinatedActions[1].action_type = "bilateral_emergency_response") =>
        LET stored == active_policies["BD"][CoordinatedActions[1].proposal_id]
        IN  /\ "IN" \in DOMAIN stored.responses
            /\ stored.responses["IN"] = "accept"
            /\ stored.status = "approved"
            /\ stored.status = CoordinatedActions[1].status

NoData(city_input) == city_input.kind \in {"missing", "empty"}

\* C6: a context in which a city has no input (entry missing or empty) never
\* fails the run: status success, that city reported no_data, and no
\* coordinated action and no alert from that city; also when both cities
\* have none.
C6_NoDataNeverFails ==
    (/\ agent = "orchestrator"
     /\ input.kind = "dict"
     /\ (NoData(input.dhaka_data) \/ NoData(input.kolkata_data))) =>
        /\ result.status = "success"
        /\ \A slot \in {[city |-> "dhaka", country |-> "BD"],
                        [city |-> "kolkata", country |-> "IN"]} :
            NoData(input[slot.city \o "_data"]) =>
                /\ result.cities[slot.city].status = "no_data"
                /\ \A i \in 1..Len(CoordinatedActions) :
                       CoordinatedActions[i].participating_countries[1] # slot.country
                /\ \A i \in AlertsOfType("pollution_spike") :
                       Alerts[i].alert.origin_country # slot.country
                /\ AlertsOfType("transboundary_transport") = {}

\* what a run reports for one city: status, pm25, category and actions
\* ("absent" when the run returned no city results)
CityView(res, city) ==
    IF res.status # "success" THEN [status |-> "absent"]
    ELSE LET r == res.cities[city]
         IN  [status |-> r.status,
              pm25 |-> Get(r, "pm25", NoneVal),
              category |-> policy_get(r, "air_quality_category", ""),
              actions |-> policy_get(r, "recommended_actions", <<>>)]

RunResult(context) == run(context, orchestration_stats, active_policies, clock).result

\* C7: what a run reports for a city depends on that city's input only: with
\* any other input for the other city the city's status, pm25, category and
\* actions are the same.
C7_CityResultIndependent ==
    (agent = "orchestrator" /\ input.kind = "dict") =>
        \A other \in CityInputs :
            /\ CityView(RunResult([input EXCEPT !.kolkata_data = other]), "dhaka")
                   = CityView(result, "dhaka")
            /\ CityView(RunResult([input EXCEPT !.dhaka_data = other]), "kolkata")
                   = CityView(result, "kolkata")

\* C8: exactly one transboundary_transport alert, sent to the government
\* channel only of both countries, whenever Dhaka's adjusted transboundary
\* fraction exceeds 0.5 or Kolkata's exceeds 0.4, whatever the categories and
\* whether or not the other city was processed; none otherwise.
C8_TransboundaryAlert ==
    OrchestratorSuccess =>
        LET exceeds ==
                \/ DhakaResult.status = "success" /\ Fraction(DhakaResult) > 50
                \/ KolkataResult.status = "success" /\ Fraction(KolkataResult) > 40
        IN  IF exceeds
            THEN /\ Cardinality(AlertsOfType("transboundary_transport")) = 1
                 /\ \A c \in Countries :
                        ChannelsSent(c, "transboundary_transport") = {"government"}
            ELSE /\ AlertsOfType("transboundary_transport") = {}
                 /\ \A c \in Countries : ChannelsSent(c, "transboundary_transport") = {}

\* C9: the result holds a pollution_spike alert for a city iff the city was
\* processed and its category is severe or emergency; there is at most one
\* per city, it carries the English, Bengali and Hindi messages and goes
\* through the city's own alert protocol to exactly the channels government,
\* public_sms, digital_billboards and mobile_app.
C9_PollutionSpikeAlerts ==
    OrchestratorSuccess =>
        \A slot \in {[city |-> "dhaka", country |-> "BD"],
                     [city |-> "kolkata", country |-> "IN"]} :
            LET r == result.cities[slot.city]
                mine == {i \in AlertsOfType("pollution_spike") :
                            Alerts[i].alert.origin_country = slot.country}
                four == {"government", "public_sms", "digital_billboards", "mobile_app"}
            IN  IF Severe(r)
                THEN /\ Cardinality(mine) = 1
                     /\ \A i \in mine :
                            /\ {"message_english", "message_bengali", "message_hindi"}
                                   \subseteq DOMAIN Alerts[i].alert
                            /\ DOMAIN Alerts[i].distribution = four
                            /\ \A ch \in four : Alerts[i].distribution[ch]
                     /\ ChannelsSent(slot.country, "pollution_spike") = four
                ELSE /\ mine = {}
                     /\ ChannelsSent(slot.country, "pollution_spike") = {}

\* both cities severe: one alert each, each through its own protocol
C9_Witness ==
    /\ OrchestratorSuccess
    /\ Severe(DhakaResult) /\ Severe(KolkataResult)
    /\ Cardinality(AlertsOfType("pollution_spike")) = 2
    /\ ChannelsSent("BD", "pollution_spike") = ChannelsSent("IN", "pollution_spike")

\* C10: every call of run updates the statistics once: total_runs is the
\* number of calls made and successful_runs the number of calls that
\* returned status success.
C10_StatsCountEveryRun ==
    /\ orchestration_stats.total_runs = calls["orchestrator"]
    /\ orchestration_stats.successful_runs = succeeded["orchestrator"]

Slots == {[city |-> "dhaka", country |-> "BD"], [city |-> "kolkata", country |-> "IN"]}

\* the record _process_city_data hands to the validator for a dict input
Validated(slot) ==
    LET given == input[slot.city \o "_data"].data
    IN  DataValidator_execute(IF "country_code" \in DOMAIN given THEN given
                              ELSE ("country_code" :> slot.country) @@ given)

\* C11: the steps of _process_city_data run in the order validate, apportion
\* and model, decide policy, and the last three only on a record the validator
\* accepted: a rejected record is reported validation_failed with the
\* validator's errors, carries no policy decision and causes no coordinated
\* action and no alert; a processed record went through all four steps, the
\* later ones reading the validated data and the model's output.
C11_ValidateBeforeProcessing ==
    (OrchestratorSuccess /\ input.kind = "dict") =>
        \A slot \in Slots :
            input[slot.city \o "_data"].kind = "dict" =>
                LET v == Validated(slot)
                    r == result.cities[slot.city]
                    steps == sub_agents_invoked(input[slot.city \o "_data"], slot.country)
                IN  /\ steps = SubSeq(SubAgentOrder, 1, Len(steps))
                    /\ Len(steps) > 1 => (~v.exc /\ v.is_valid)
                    /\ (~v.exc /\ ~v.is_valid) =>
                            /\ r.status = "validation_failed"
                            /\ r.errors = v.errors
                            /\ DOMAIN r = {"status", "errors", "country_code"}
                            /\ \A i \in 1..Len(CoordinatedActions) :
                                   CoordinatedActions[i].participating_countries[1] # slot.country
                            /\ \A i \in AlertsOfType("pollution_spike") :
                                   Alerts[i].alert.origin_country # slot.country
                            /\ AlertsOfType("transboundary_transport") = {}
                    /\ r.status = "success" =>
                            /\ steps = SubAgentOrder
                            /\ r.pm25 = Get(v.modified_data, "pm25", 0)
                            /\ r.emission_analysis.pm25_total = r.pm25
                            /\ r.policy_recommendations.pm25_level = r.pm25
                            /\ r.policy_recommendations.transboundary_contribution_percent
                                   = Fraction(r)

\* Dhaka's record is rejected (pm25 below 0) while Kolkata's is processed
C11_Witness ==
    /\ OrchestratorSuccess
    /\ DhakaResult.status = "validation_failed"
    /\ DhakaResult.errors = {"pm25_min"}
    /\ KolkataResult.status = "success"

Validated1 == agent \in {"validate_measurement", "data_validator"}

\* C12: a validator returns is_valid false iff pm25 is below 0 or the
\* timestamp cannot be parsed, which is iff it reports an error; the other
\* violations add warnings only, and pm25 = 0 is valid.  The same rule is
\* claimed of both validators, so they agree on every measurement.
C12_RejectedIffNegativeOrUnparsable ==
    Validated1 =>
        LET pm25 == Get(input, "pm25", 0)
            ts == Get(input, "timestamp", "absent")
        IN  /\ result.is_valid <=> result.errors = {}
            /\ (pm25 < 0 \/ ts = "bad") => ~result.is_valid
            /\ (pm25 >= 0 /\ ts \in {"ok", "old"}) => result.is_valid
            /\ validate_measurement(input).is_valid = DataValidator_execute(input).is_valid

Decided == agent = "policy_engine"

SeverityRank(category) ==
    CASE category = "good" -> 0
      [] category = "moderate" -> 1
      [] category = "poor" -> 2
      [] category = "severe" -> 3
      [] category = "emergency" -> 4

\* C14: the category is the most severe level whose threshold (BD
\* 200/150/100/50, IN 180/120/90/50 for emergency/severe/poor/moderate) is at
\* most pm25, good below the moderate threshold; it never gets less severe
\* when pm25 grows; BD 139 is poor and IN 45.6 (between 45 and 46) is good.
C14_CategoryByThresholds ==
    Decided =>
        LET pm25 == Get(input, "pm25", 0)
            country == Get(input, "country_code", "BD")
            levels == IF country = "IN"
                      THEN <<50, 90, 120, 180>>
                      ELSE <<50, 100, 150, 200>>
            reached == Cardinality({i \in 1..4 : levels[i] <= pm25})
        IN  /\ country \in {"BD", "IN"} =>
                    SeverityRank(result.air_quality_category) = reached
            /\ \A higher \in PolicyPm25 :
                   higher >= pm25 =>
                       SeverityRank(air_quality_category(higher, country))
                           >= SeverityRank(result.air_quality_category)
            /\ (country = "BD" /\ pm25 = 139) => result.air_quality_category = "poor"
            /\ (country = "IN" /\ pm25 \in {45, 46}) => result.air_quality_category = "good"

\* Dhaka at 139: below severe (150), at least poor (100)
C14_Witness ==
    /\ Decided
    /\ input = [pm25 |-> 139, country_code |-> "BD", transboundary_percentage |-> 24]
    /\ result.air_quality_category = "poor"

\* C15: cross_border_coordination_needed is true iff the transboundary
\* percent is above 30 and the category is severe or emergency; it is false
\* for category poor whatever the percent.
C15_CoordinationNeeded ==
    Decided =>
        /\ result.cross_border_coordination_needed <=>
               (/\ Get(input, "transboundary_percentage", 0) > 30
                /\ result.air_quality_category \in {"severe", "emergency"})
        /\ result.air_quality_category = "poor" => ~result.cross_border_coordination_needed

\* a poor category with a transboundary share of 71 percent: not needed
C15_Witness ==
    /\ Decided
    /\ result.air_quality_category = "poor"
    /\ result.transboundary_contribution_percent = 71
    /\ ~result.cross_border_coordination_needed

\* C16: for every pm25 and every country code, BD, IN or any other, the
\* category is one of the five levels and recommended_actions is non-empty
\* when the category is poor, severe or emergency.
C16_ActionsForPoorOrWorse ==
    Decided =>
        /\ result.air_quality_category \in {"good", "moderate", "poor", "severe", "emergency"}
        /\ result.air_quality_category \in {"poor", "severe", "emergency"}
               => result.recommended_actions # <<>>

\* C17: two calls of execute with identical inputs return identical decision
\* records, every field equal.
C17_SameInputSameDecision ==
    [][(agent = "policy_engine" /\ agent' = "policy_engine" /\ input' = input)
          => result' = result]_vars


\* the factors of the transport efficiency as the specification states them,
\* in tenths
StatedBase(wind_speed) ==
    IF wind_speed < 10 THEN 1 ELSE IF wind_speed < 30 THEN 3
    ELSE IF wind_speed < 60 THEN 6 ELSE 8

StatedDirection(wind_direction, inbound, outbound) ==
    IF wind_direction \in inbound THEN 10
    ELSE IF wind_direction \in outbound THEN 2 ELSE 5

StatedBoundaryLayer(boundary_layer_height) ==
    IF boundary_layer_height < 500 THEN 12
    ELSE IF boundary_layer_height <= 1000 THEN 10 ELSE 8

\* C18: _calculate_transport_efficiency returns base x direction x
\* boundary_layer clamped to [0.1, 0.9]: base 0.1/0.3/0.6/0.8 for wind speed
\* < 1, < 3, < 6, otherwise; direction 1.0 in the inbound range (225-315 for
\* BD, 45-135 for IN), 0.2 in the opposite range, 0.5 otherwise; boundary
\* layer 1.2 below 500 m, 1.0 from 500 up to 1000 m, 0.8 above 1000 m; and
\* the result is within [0.1, 0.9] for every country.
C18_TransportEfficiency ==
    agent = "calculate_transport_efficiency" =>
        /\ result.transport_efficiency \in 100..900
        /\ input.country_code \in {"BD", "IN"} =>
              LET direction ==
                      IF input.country_code = "BD"
                      THEN StatedDirection(input.wind_direction_deg, 225..315, 45..135)
                      ELSE StatedDirection(input.wind_direction_deg, 45..135, 225..315)
                  product == StatedBase(input.wind_speed_ms) * direction
                               * StatedBoundaryLayer(input.boundary_layer_height_m)
              IN  result.transport_efficiency =
                      IF product < 100 THEN 100
                      ELSE IF product > 900 THEN 900 ELSE product

\* C19: transport_time_hours is None iff the wind speed is below 0.5 m/s,
\* and no error is reported; from 0.5 m/s on it is finite and equals the
\* country's distance to the border divided by (wind speed x 3.6).
C19_TransportTimeExact ==
    agent = "transboundary_model" =>
        LET wind_speed == Get(input, "wind_speed_ms", 0)
            distance == IF Get(input, "country_code", "BD") = "IN" THEN 80 ELSE 50
        IN  /\ ~result.exc
            /\ result.transport_time_hours = NoneVal <=> wind_speed < 5
            /\ wind_speed >= 5 =>
                  result.transport_time_hours * wind_speed * 36 = distance * 1000

\* C19 as the code has it: the reported value is that quotient rounded to
\* one decimal (tenths of an hour).
C19_TransportTimeRounded ==
    agent = "transboundary_model" =>
        LET wind_speed == Get(input, "wind_speed_ms", 0)
            distance == IF Get(input, "country_code", "BD") = "IN" THEN 80 ELSE 50
            error == result.transport_time_hours * wind_speed * 36 - distance * 1000
        IN  /\ ~result.exc
            /\ result.transport_time_hours = NoneVal <=> wind_speed < 5
            /\ wind_speed >= 5 =>
                  /\ result.transport_time_hours >= 0
                  /\ 2 * error <= wind_speed * 36
                  /\ -2 * error <= wind_speed * 36

\* 0.5 m/s from Kolkata: 80 / 1.8 = 44.4 h
C19_Witness ==
    /\ agent = "transboundary_model"
    /\ Get(input, "wind_speed_ms", 0) = 5
    /\ Get(input, "country_code", "BD") = "IN"
    /\ result.transport_time_hours = 444


\* the sensors of the input that are active, and those among them whose
\* task ends with a measurement
ActiveSensors == {i \in DOMAIN input.all_sensors : input.all_sensors[i].is_active}

ReadSensors == {i \in ActiveSensors : input.endings[i] = "measurement"}

\* C20: DhakaAirQualityTool.execute launches one task per active sensor and
\* none for an inactive one, returns exactly one reading for each task that
\* ended with a measurement and nothing else, whichever tasks end with an
\* exception or with None, and raises nothing.
C20_ReadingsOfSucceededTasks ==
    agent = "air_quality_tool" =>
        LET launched == result.tasks
            returned == result.valid_measurements
        IN  /\ ~raised
            /\ Len(launched) = Cardinality(ActiveSensors)
            /\ {launched[i] : i \in DOMAIN launched} = ActiveSensors
            /\ Len(returned) = Cardinality(ReadSensors)
            /\ {returned[i].station_id : i \in DOMAIN returned} = ReadSensors
            /\ \A i \in DOMAIN returned : returned[i].pm25 = 120

\* one task ends with an exception, one sensor is inactive, and the reading
\* of the remaining sensor is returned
C20_Witness ==
    /\ agent = "air_quality_tool"
    /\ \E i \in ActiveSensors : input.endings[i] = "exception"
    /\ \E i \in DOMAIN input.all_sensors :
          ~input.all_sensors[i].is_active /\ input.endings[i] = "measurement"
    /\ Len(result.valid_measurements) = 1


\* the active sensors whose task never completes
HungSensors == {i \in ActiveSensors : input.endings[i] = "hangs"}

\* C21: when a single sensor task hangs forever, the collection call still
\* returns eventually, with the readings of the other sensors and without
\* the hung one.
C21_ReturnsDespiteHungSensor ==
    Cardinality(HungSensors) = 1 =>
        <>(/\ agent = "air_quality_tool"
           /\ {result.valid_measurements[i].station_id :
                   i \in DOMAIN result.valid_measurements} = ReadSensors)


AllCallsDone ==
    /\ agent = "dhaka_tasks"
    /\ \A c \in RunCalls : result[c].pc = "done"

\* C22: interleaved run() calls on one DhakaAgent all complete with a result
\* record and without an exception, and no statistics update is lost: once
\* all are done, total_collections is the number of calls that reached the
\* statistics step and successful_collections <= total_collections.
C22_NoLostStatisticsUpdate ==
    /\ <>AllCallsDone
    /\ [](AllCallsDone =>
            /\ ~raised
            /\ \A c \in RunCalls :
                  result[c].result.status \in {"success", "no_data", "error"}
            /\ collection_stats.total_collections =
                  Cardinality({c \in RunCalls : result[c].result.status = "success"})
            /\ collection_stats.successful_collections
                  <= collection_stats.total_collections)

\* every call began before any statistics update and every one was counted,
\* one of them with no valid measurement
C22_Witness ==
    /\ AllCallsDone
    /\ \A c \in RunCalls : result[c].begun_at = 0 /\ result[c].result.status = "success"
    /\ \E c \in RunCalls : result[c].result.collection_summary.valid_measurements = 0
    /\ collection_stats.total_collections = NumCalls


\* the data_sources entry of the tool that serves a source task
SourceEntry(task) ==
    CASE task \in {"weather", "forecast"} -> "weather_model"
      [] task \in {"aerosol", "atmospheric"} -> "satellite_data"
      [] OTHER -> "traffic_monitoring"

\* C23: whichever of the five source tasks of KolkataAgent.run fail, the run
\* returns status success, every failed feed is reported as unavailable in
\* data_sources, the transboundary analysis is unavailable when weather is
\* missing and the emission estimate is unavailable when traffic is missing.
C23_FailedFeedsReported ==
    (agent = "kolkata" /\ input.fault # "merge") =>
        /\ ~raised
        /\ result.status = "success"
        /\ \A task \in input.failed :
              result.data_sources[SourceEntry(task)] = "unavailable"
        /\ "weather" \in input.failed =>
              result.transboundary_analysis.status = "unavailable"
        /\ "traffic" \in input.failed =>
              result.emission_estimates.status = "unavailable"


\* C24: EmissionTracker.execute splits the total exhaustively: for every
\* pm25, country and wind, local_contribution + transboundary_contribution
\* equals pm25_total (contributions in tenths, the total in hundredths).
C24_ContributionsSumToTotal ==
    (agent = "emission_tracker" /\ ~result.exc) =>
        (result.local_contribution + result.transboundary_contribution) * 10
            = result.pm25_total


\* the per-measurement results of the batch that was validated
BatchResults == [i \in DOMAIN input |-> validate_measurement(input[i])]

\* C25: validate_batch returns total_measurements = batch size, valid +
\* with-errors = total, validation_rate = valid / total and
\* average_quality_score = the mean of the per-measurement scores (both 0
\* for an empty batch, written as a quotient with denominator 0); and
\* DhakaAgent.run keeps as many measurements as validate_batch counts valid.
C25_BatchSummary ==
    /\ agent = "validate_batch" =>
          /\ result.total_measurements = Len(input)
          /\ result.valid_measurements + result.measurements_with_errors
                = result.total_measurements
          /\ result.valid_measurements =
                Cardinality({i \in DOMAIN input : BatchResults[i].is_valid})
          /\ result.validation_rate =
                [num |-> result.valid_measurements, den |-> result.total_measurements]
          /\ result.average_quality_score.den = Len(input)
          /\ result.average_quality_score.num =
                SumSeq([i \in DOMAIN input |-> BatchResults[i].quality_score])
    /\ agent = "dhaka_step_2" =>
          Len(result.valid_measurements) = result.validation_results.valid_measurements

\* a batch of three: one clean, one valid with warnings, one rejected
C25_Witness ==
    /\ agent = "validate_batch"
    /\ result.total_measurements = 3
    /\ result.valid_measurements = 2
    /\ result.measurements_with_warnings = 1
    /\ result.measurements_with_errors = 1
    /\ result.average_quality_score = [num |-> 2684, den |-> 3]


\* the two scenario measurements (pm25 45.6 in whole ug/m3)
ScenarioA == [kind |-> "dict", data |-> Rec(139, 35, 270, 800)]

ScenarioB == [kind |-> "dict", data |-> Rec(45, 42, 90, 1200)]

\* C26: in a run whose Kolkata record is the Scenario B measurement no alert
\* is generated for Kolkata: whatever Dhaka's record is, no alert of the run
\* originates from IN or lists IN among its affected countries; and with the
\* Scenario A record for Dhaka the alert list is empty.
C26_NoAlertForGoodKolkata ==
    (/\ agent = "orchestrator"
     /\ input.kind = "dict"
     /\ input.kolkata_data = ScenarioB
     /\ result.status = "success") =>
        LET alerts == result.alerts.alerts
        IN  /\ \A i \in DOMAIN alerts :
                  /\ Get(alerts[i].alert, "origin_country", "none") # "IN"
                  /\ \A j \in DOMAIN alerts[i].alert.affected_countries :
                        alerts[i].alert.affected_countries[j] # "IN"
            /\ input.dhaka_data = ScenarioA => alerts = <<>>


\* C27: every city alert the orchestrator creates carries the policy
\* decision's recommended_actions verbatim, the same elements in the same
\* order.
C27_AlertKeepsRecommendedActions ==
    (agent = "orchestrator" /\ result.status = "success") =>
        \A i \in DOMAIN result.alerts.alerts :
            LET alert == result.alerts.alerts[i].alert
                city == IF Get(alert, "origin_country", "none") = "BD"
                        THEN "dhaka" ELSE "kolkata"
            IN  alert.alert_type = "pollution_spike" =>
                    alert.recommended_actions =
                        result.cities[city].policy_recommendations.recommended_actions

\* a severe Dhaka record: the alert lists the two BD actions in the order of
\* the action table
C27_Witness ==
    /\ agent = "orchestrator"
    /\ result.status = "success"
    /\ \E i \in DOMAIN result.alerts.alerts :
          /\ Get(result.alerts.alerts[i].alert, "origin_country", "none") = "BD"
          /\ result.alerts.alerts[i].alert.recommended_actions =
                <<"brick_kiln_shutdown", "construction_halt">>
          /\ result.cities.dhaka.policy_recommendations.recommended_actions =
                <<"brick_kiln_shutdown", "construction_halt">>


\* the record given for a city slot, and the one handed to the validator
Given(slot) == input[slot.city \o "_data"].data

Presented(slot) ==
    IF "country_code" \in DOMAIN Given(slot) THEN Given(slot)
    ELSE ("country_code" :> slot.country) @@ Given(slot)

\* the slots of a successful run whose record was processed through
Processed ==
    {slot \in Slots : /\ input[slot.city \o "_data"].kind = "dict"
                      /\ result.cities[slot.city].status = "success"}

\* C28: in the pipeline a pm25 above the validator's maximum (900) is flagged
\* with a warning and not clamped: the emission tracker and the policy engine
\* receive the raw value and the city result reports it.
C28_HighPm25NotClamped ==
    (OrchestratorSuccess /\ input.kind = "dict") =>
        \A slot \in Processed :
            Get(Given(slot), "pm25", 0) > 900 =>
                LET r == result.cities[slot.city]
                IN  /\ "pm25_max" \in Validated(slot).warnings
                    /\ r.pm25 = Given(slot).pm25
                    /\ r.emission_analysis.pm25_total = Given(slot).pm25
                    /\ r.policy_recommendations.pm25_level = Given(slot).pm25

\* C29: the jurisdiction of a city slot is fixed by the slot, whatever
\* country_code the record carries: the source table, the model coefficients,
\* the thresholds and the action table are those of the slot's country, and
\* the country of the policy decision equals the country_code of the city
\* result.
C29_JurisdictionFixedBySlot ==
    (OrchestratorSuccess /\ input.kind = "dict") =>
        \A slot \in Processed :
            LET r == result.cities[slot.city]
                decision == r.policy_recommendations
            IN  /\ r.country_code = slot.country
                /\ decision.country = r.country_code
                /\ r.emission_analysis.country = slot.country
                /\ r.transboundary_model.country = slot.country
                /\ r.transboundary_model.base_coefficients =
                       [local |-> model_coefficients(slot.country).alpha,
                        transboundary |-> model_coefficients(slot.country).beta]
                /\ decision.air_quality_category =
                       air_quality_category(r.pm25, slot.country)
                /\ decision.recommended_actions =
                       policy_actions(slot.country, decision.air_quality_category)

\* C30: a record whose country code is neither BD nor IN is treated by every
\* component exactly as the same record with country code BD: the emission
\* split, the transport model and the policy decision are the same but for
\* the country they name.
C30_UnknownCountryFallsBackToBD ==
    (OrchestratorSuccess /\ input.kind = "dict") =>
        \A slot \in Processed :
            Presented(slot).country_code \notin {"BD", "IN"} =>
                LET r == result.cities[slot.city]
                    as_bd == [Validated(slot).modified_data EXCEPT !.country_code = "BD"]
                    named(rec) == [rec EXCEPT !.country = Presented(slot).country_code]
                    model == TransboundaryModel_execute(as_bd)
                IN  /\ r.emission_analysis = named(EmissionTracker_execute(as_bd))
                    /\ r.transboundary_model = named(model)
                    /\ r.policy_recommendations =
                          named(PolicyDecisionEngine_execute(
                                    ("transboundary_percentage" :>
                                        model.adjusted_coefficients.transboundary)
                                    @@ as_bd))

=============================================================================
